---- MODULE Spec2Model ----
(***************************************************************************)
(* Model of src/ecef_to_sez.py: a script that reads six ECEF coordinates   *)
(* from the command line and prints the SEZ components of the target       *)
(* relative to the origin.                                                 *)
(*                                                                         *)
(* Floats.  A Python float is modelled as a record [c, v]:                 *)
(*   c = "fin"  a finite number, v thousandths (v = 1500 stands for 1.5)   *)
(*   c = "inf"  an infinity, v = 1 or -1                                   *)
(*   c = "nan"  not-a-number, v = 0                                        *)
(* Arithmetic is exact and then rounded to the nearest thousandth, the way *)
(* the interpreter rounds to the nearest double.  The special values and   *)
(* the exceptions follow CPython: float division by zero raises            *)
(* ZeroDivisionError whatever the dividend is, and math.asin, math.sqrt,   *)
(* math.sin and math.cos raise ValueError outside of their domain.         *)
(*                                                                         *)
(* What the resolution leaves out: the sign of a zero; the OverflowError   *)
(* of ** (the coordinates tried stay below 1000 km, so that every          *)
(* intermediate value fits the 32-bit integers of the checker); and the    *)
(* digits below 0.001, so that E_E is 0.082, the tolerance 10e-7 is 0 and  *)
(* two latitude iterates are within the tolerance when they are the same   *)
(* thousandth of a radian.                                                 *)
(***************************************************************************)
EXTENDS Integers, Sequences, FiniteSets, TLC

\* resolution of the modelled floats: units per 1.0
SCALE == 1000

Fin(n) == [c |-> "fin", v |-> n]
NaN == [c |-> "nan", v |-> 0]
PInf == [c |-> "inf", v |-> 1]
NInf == [c |-> "inf", v |-> -1]

IsFin(a) == a.c = "fin"
IsNaN(a) == a.c = "nan"
IsInf(a) == a.c = "inf"
IsZero(a) == a.c = "fin" /\ a.v = 0

IAbs(n) == IF n < 0 THEN -n ELSE n
ISign(n) == IF n < 0 THEN -1 ELSE IF n > 0 THEN 1 ELSE 0
\* sign of a float that is not NaN
FSign(a) == ISign(a.v)

\* n / d rounded to the nearest integer, halves away from zero (d > 0)
RoundDiv(n, d) == ISign(n) * ((IAbs(n) + d \div 2) \div d)

\* a * b / SCALE rounded, computed without leaving 32 bits
MulScaled(a, b) ==
    LET s == ISign(a) * ISign(b)
        x == IAbs(a)
        y == IAbs(b)
    IN s * ((x \div SCALE) * y + RoundDiv((x % SCALE) * y, SCALE))

\* a * SCALE / b rounded (b # 0), computed without leaving 32 bits
DivScaled(a, b) ==
    LET s == ISign(a) * ISign(b)
        x == IAbs(a)
        y == IAbs(b)
    IN s * ((x \div y) * SCALE + RoundDiv((x % y) * SCALE, y))

\* unary minus
FNeg(a) == IF IsNaN(a) THEN NaN ELSE [c |-> a.c, v |-> -a.v]

\* a + b
FAdd(a, b) ==
    IF IsNaN(a) \/ IsNaN(b) THEN NaN
    ELSE IF IsInf(a) /\ IsInf(b) THEN (IF a.v = b.v THEN a ELSE NaN)
    ELSE IF IsInf(a) THEN a
    ELSE IF IsInf(b) THEN b
    ELSE Fin(a.v + b.v)

\* mutant of FSub: the operands are added
FSub_m(a, b) == FAdd(a, b)

\* a - b
FSub(a, b) ==
    IF IsNaN(a) \/ IsNaN(b) THEN NaN
    ELSE IF IsInf(a) /\ IsInf(b) THEN (IF a.v # b.v THEN a ELSE NaN)
    ELSE IF IsInf(a) THEN a
    ELSE IF IsInf(b) THEN FNeg(b)
    ELSE Fin(a.v - b.v)

\* a * b
FMul(a, b) ==
    IF IsNaN(a) \/ IsNaN(b) THEN NaN
    ELSE IF IsInf(a) \/ IsInf(b)
         THEN (IF IsZero(a) \/ IsZero(b) THEN NaN
               ELSE [c |-> "inf", v |-> FSign(a) * FSign(b)])
    ELSE Fin(MulScaled(a.v, b.v))

\* a / b raises ZeroDivisionError
DivRaises(a, b) == IsZero(b)

\* a / b, for b that is not zero
FDiv(a, b) ==
    IF IsNaN(a) \/ IsNaN(b) THEN NaN
    ELSE IF IsInf(a) THEN (IF IsInf(b) THEN NaN
                           ELSE [c |-> "inf", v |-> FSign(a) * FSign(b)])
    ELSE IF IsInf(b) THEN Fin(0)
    ELSE Fin(DivScaled(a.v, b.v))

\* a ** 2
FSquare(a) == FMul(a, a)

\* abs(a)
FAbs(a) == IF IsNaN(a) THEN NaN ELSE [c |-> a.c, v |-> IAbs(a.v)]

\* a > b (False as soon as one side is NaN)
FGt(a, b) ==
    IF IsNaN(a) \/ IsNaN(b) THEN FALSE
    ELSE IF IsInf(a) THEN a.v = 1 /\ ~(IsInf(b) /\ b.v = 1)
    ELSE IF IsInf(b) THEN b.v = -1
    ELSE a.v > b.v

(***************************************************************************)
(* The math library (line 29), at the resolution of the modelled floats.   *)
(* Angles are radians in thousandths, as every other float.                *)
(***************************************************************************)

\* math.pi, and the angles derived from it
PI == 3142
HALF_PI == 1571
QUARTER_PI == 785
TWO_PI == 6283

\* largest square root the 32-bit arithmetic of the checker can square
MaxRoot == 1400000

\* r * r <= n * SCALE, computed without leaving 32 bits (0 <= r <= MaxRoot)
SquareLeq(r, n) ==
    LET q == r \div SCALE
        m == r % SCALE
        whole == q * q * SCALE + 2 * q * m + (m * m) \div SCALE
        rest == (m * m) % SCALE
    IN whole < n \/ (whole = n /\ rest = 0)

\* bisection: largest r in lo..hi-1 whose square does not exceed n
RECURSIVE SqrtBis(_, _, _)
SqrtBis(n, lo, hi) ==
    IF hi - lo <= 1 THEN lo
    ELSE LET mid == (lo + hi) \div 2
         IN IF SquareLeq(mid, n) THEN SqrtBis(n, mid, hi)
            ELSE SqrtBis(n, lo, mid)

\* math.sqrt(a) raises ValueError
SqrtRaises(a) == ~IsNaN(a) /\ a.v < 0

\* math.sqrt(a)
Sqrt(a) ==
    IF IsNaN(a) THEN NaN
    ELSE IF IsInf(a) THEN PInf
    ELSE Fin(SqrtBis(a.v, 0, MaxRoot))

\* sine of x thousandths of a radian, 0 <= x <= pi/4 (Taylor series)
SinSmall(x) ==
    LET x2 == RoundDiv(x * x, SCALE)
        x3 == RoundDiv(x * x * x, SCALE * SCALE)
    IN x - RoundDiv(x * x * x, 6 * SCALE * SCALE)
         + RoundDiv(x3 * x2, 120 * SCALE)

\* cosine of x thousandths of a radian, 0 <= x <= pi/4 (Taylor series)
CosSmall(x) ==
    LET x2 == RoundDiv(x * x, SCALE)
    IN SCALE - RoundDiv(x * x, 2 * SCALE)
             + RoundDiv(x2 * x2, 24 * SCALE)
             - RoundDiv(x2 * x2 * x2, 720 * SCALE * SCALE)

\* sine and cosine on 0 .. pi/2
SinPos(x) == IF x <= QUARTER_PI THEN SinSmall(x) ELSE CosSmall(HALF_PI - x)
CosPos(x) == IF x <= QUARTER_PI THEN CosSmall(x) ELSE SinSmall(HALF_PI - x)

\* the angle x brought into -pi .. pi
Reduce(x) == ((x + PI) % TWO_PI) - PI

\* sine and cosine of any number of thousandths of a radian
ISin(x) ==
    LET r == Reduce(x)
        m == IAbs(r)
    IN ISign(r) * (IF m <= HALF_PI THEN SinPos(m) ELSE SinPos(PI - m))
\* (no float is an odd multiple of pi/2, so math.cos never returns a zero:
\* the cosine that rounds to zero is the smallest positive float instead)
ICos(x) ==
    LET m == IAbs(Reduce(x))
        c == IF m <= HALF_PI THEN CosPos(m) ELSE -CosPos(PI - m)
    IN IF c = 0 THEN 1 ELSE c

\* math.sin(a) and math.cos(a) raise ValueError
TrigRaises(a) == IsInf(a)

\* math.sin(a)
Sin(a) == IF IsNaN(a) THEN NaN ELSE Fin(ISin(a.v))

\* math.cos(a)
Cos(a) == IF IsNaN(a) THEN NaN ELSE Fin(ICos(a.v))

\* bisection: largest angle in lo..hi-1 whose sine does not exceed q
RECURSIVE AsinBis(_, _, _)
AsinBis(q, lo, hi) ==
    IF hi - lo <= 1 THEN lo
    ELSE LET mid == (lo + hi) \div 2
         IN IF SinPos(mid) <= q THEN AsinBis(q, mid, hi)
            ELSE AsinBis(q, lo, mid)

\* math.asin(a) raises ValueError
AsinRaises(a) == ~IsNaN(a) /\ (IsInf(a) \/ IAbs(a.v) > SCALE)

\* math.asin(a)
Asin(a) ==
    IF IsNaN(a) THEN NaN
    ELSE Fin(ISign(a.v) * AsinBis(IAbs(a.v), 0, HALF_PI + 1))

\* bisection: largest angle in lo..hi-1 whose tangent does not exceed t
RECURSIVE AtanBis(_, _, _)
AtanBis(t, lo, hi) ==
    IF hi - lo <= 1 THEN lo
    ELSE LET mid == (lo + hi) \div 2
         IN IF SinPos(mid) <= MulScaled(t, CosPos(mid))
            THEN AtanBis(t, mid, hi)
            ELSE AtanBis(t, lo, mid)

\* math.atan(a)
Atan(a) ==
    IF IsNaN(a) THEN NaN
    ELSE IF IsInf(a) THEN Fin(a.v * HALF_PI)
    ELSE Fin(ISign(a.v) * AtanBis(IAbs(a.v), 0, HALF_PI + 1))

\* math.atan2(y, x)
Atan2(y, x) ==
    IF IsNaN(y) \/ IsNaN(x) THEN NaN
    ELSE IF IsInf(y)
         THEN (IF IsInf(x)
               THEN Fin(y.v * (IF x.v = 1 THEN QUARTER_PI ELSE PI - QUARTER_PI))
               ELSE Fin(y.v * HALF_PI))
    ELSE IF IsInf(x)
         THEN (IF x.v = 1 THEN Fin(0)
               ELSE Fin((IF y.v < 0 THEN -1 ELSE 1) * PI))
    ELSE IF x.v > 0 THEN Atan(FDiv(y, x))
    ELSE IF x.v < 0
         THEN (IF y.v >= 0 THEN Fin(Atan(FDiv(y, x)).v + PI)
               ELSE Fin(Atan(FDiv(y, x)).v - PI))
    ELSE Fin(ISign(y.v) * HALF_PI)

\* math.isnan(a)
isnan(a) == IsNaN(a)

(***************************************************************************)
(* float(str) and str(float).  A string is a sequence of characters.  The  *)
(* model covers the decimal notation [sign] digits [. digits] and the      *)
(* words nan, inf and infinity; exponents, underscores and surrounding     *)
(* white space are not in the alphabet of the modelled arguments.          *)
(***************************************************************************)

Digits == <<"0", "1", "2", "3", "4", "5", "6", "7", "8", "9">>
IsDigit(ch) == \E i \in 1..10 : Digits[i] = ch
DigitVal(ch) == (CHOOSE i \in 1..10 : Digits[i] = ch) - 1

\* the string without its leading sign
Unsigned(str) ==
    IF Len(str) > 0 /\ Head(str) \in {"+", "-"} THEN Tail(str) ELSE str
SignOf(str) == IF Len(str) > 0 /\ Head(str) = "-" THEN -1 ELSE 1

IsWord(body, word) ==
    /\ Len(body) = Len(word)
    /\ \A i \in 1..Len(word) : body[i] \in word[i]
IsNanWord(body) == IsWord(body, <<{"n", "N"}, {"a", "A"}, {"n", "N"}>>)
IsInfWord(body) ==
    \/ IsWord(body, <<{"i", "I"}, {"n", "N"}, {"f", "F"}>>)
    \/ IsWord(body, <<{"i", "I"}, {"n", "N"}, {"f", "F"}, {"i", "I"},
                      {"n", "N"}, {"i", "I"}, {"t", "T"}, {"y", "Y"}>>)

\* positions of the decimal points of the string
Dots(body) == {i \in 1..Len(body) : body[i] = "."}

IsDecimal(body) ==
    /\ \A i \in 1..Len(body) : IsDigit(body[i]) \/ body[i] = "."
    /\ Cardinality(Dots(body)) <= 1
    /\ Len(body) > Cardinality(Dots(body))

\* float(str) raises ValueError
ParseRaises(str) ==
    LET body == Unsigned(str)
    IN ~(IsNanWord(body) \/ IsInfWord(body) \/ IsDecimal(body))

\* value of a sequence of digits
RECURSIVE DigitsVal(_)
DigitsVal(ds) ==
    IF Len(ds) = 0 THEN 0
    ELSE 10 * DigitsVal(SubSeq(ds, 1, Len(ds) - 1)) + DigitVal(ds[Len(ds)])

\* thousandths denoted by the digits after the decimal point
FracVal(ds) ==
    LET d(i) == IF i <= Len(ds) THEN DigitVal(ds[i]) ELSE 0
    IN 100 * d(1) + 10 * d(2) + d(3) + (IF d(4) >= 5 THEN 1 ELSE 0)

\* float(str), for a string that parses
ParseFloat(str) ==
    LET body == Unsigned(str)
        dot == IF Dots(body) = {} THEN Len(body) + 1
               ELSE CHOOSE i \in Dots(body) : TRUE
    IN IF IsNanWord(body) THEN NaN
       ELSE IF IsInfWord(body) THEN [c |-> "inf", v |-> SignOf(str)]
       ELSE Fin(SignOf(str)
                * (SCALE * DigitsVal(SubSeq(body, 1, dot - 1))
                   + FracVal(SubSeq(body, dot + 1, Len(body)))))

\* decimal digits of a natural number
RECURSIVE NatStr(_)
NatStr(n) ==
    IF n < 10 THEN <<Digits[n + 1]>>
    ELSE NatStr(n \div 10) \o <<Digits[(n % 10) + 1]>>

\* digits of f thousandths, without the trailing zeros but for one digit
FracStr(f) ==
    IF f % 100 = 0 THEN <<Digits[(f \div 100) + 1]>>
    ELSE IF f % 10 = 0
         THEN <<Digits[(f \div 100) + 1], Digits[((f \div 10) % 10) + 1]>>
    ELSE <<Digits[(f \div 100) + 1], Digits[((f \div 10) % 10) + 1],
           Digits[(f % 10) + 1]>>

\* str(a), the line print(a) writes (the sign of a zero is not modelled)
FormatFloat(a) ==
    IF IsNaN(a) THEN <<"n", "a", "n">>
    ELSE IF IsInf(a)
         THEN (IF a.v < 0 THEN <<"-">> ELSE <<>>) \o <<"i", "n", "f">>
    ELSE (IF a.v < 0 THEN <<"-">> ELSE <<>>)
         \o NatStr(IAbs(a.v) \div SCALE) \o <<".">>
         \o FracStr(IAbs(a.v) % SCALE)

(***************************************************************************)
(* The script.  One action per statement; pc names the line about to run.  *)
(***************************************************************************)

VARIABLES
    argv,    \* sys.argv: the script name followed by the arguments
    pc,      \* the line about to run, or "done", "exited", "raised"
    g,       \* the module globals
    stdout,  \* the lines printed so far
    exc,     \* the uncaught exception that ended the run, or "none"
    status   \* "running", or the exit status "exit0" / "exit1"

vars == <<argv, pc, g, stdout, exc, status>>

\* largest number of command-line arguments tried
MaxArgs == 7

\* constants, lines 32-34, in thousandths
R_E_KM == 6378137
E_E == 82
RAD_TO_DEG == FDiv(Fin(180 * SCALE), Fin(PI))

\* the literals 1 (line 38) and 10e-7 (line 79), in thousandths; 10e-7 is
\* below the resolution and rounds to zero
One == Fin(SCALE)
Tolerance == Fin(0)

\* a global that is not bound yet
Unbound == [c |-> "unbound", v |-> 0]

ScriptName == <<"e", "c", "e", "f", "_", "t", "o", "_", "s", "e", "z",
                ".", "p", "y">>
UsageLine == <<"Usage: python3 ecef_to_sez.py o_x_km o_y_km o_z_km x_km y_km z_km">>

\* the argument strings tried at each position
ArgPool(i) ==
    CASE i = 1 -> {<<"0">>, <<"3", "0">>, <<"8", "0", "0">>, <<"i", "n", "f">>,
                  <<"a", "b", "c">>}
      [] i = 2 -> {<<"0">>, <<"4", "0">>}
      [] i = 3 -> {<<"0">>, <<"5", "0">>, <<"n", "a", "n">>}
      [] i = 4 -> {<<"3", "0">>, <<"3", "1", ".", "5">>, <<"i", "n", "f">>}
      [] i = 5 -> {<<"4", "0">>, <<"0">>}
      [] i = 6 -> {<<"0">>, <<"5", "0">>, <<"-", "9", "0">>, <<"1", "x">>}
      [] OTHER -> {<<"0">>}

\* the argument lists of n arguments
RECURSIVE ArgLists(_)
ArgLists(n) ==
    IF n = 0 THEN {<<>>}
    ELSE {Append(l, a) : l \in ArgLists(n - 1), a \in ArgPool(n)}

\* lines 41-46: the inputs are pre-initialised to NaN
Init ==
    /\ argv \in {<<ScriptName>> \o l : l \in UNION {ArgLists(n) : n \in 0..MaxArgs}}
    /\ pc = "l49"
    /\ g = [o_x_km |-> NaN, o_y_km |-> NaN, o_z_km |-> NaN,
            x_km |-> NaN, y_km |-> NaN, z_km |-> NaN,
            x_vec_km |-> Unbound, y_vec_km |-> Unbound, z_vec_km |-> Unbound,
            lon_rad |-> Unbound, lon_deg |-> Unbound, lat_rad |-> Unbound,
            r_lon_km |-> Unbound, prev_lat_rad |-> Unbound, c_E |-> Unbound,
            count |-> Unbound, denom |-> Unbound, hae_km |-> Unbound,
            s_km |-> Unbound, e_km |-> Unbound]
    /\ stdout = <<>>
    /\ exc = "none"
    /\ status = "running"

\* bind global `name` to `val` and go to line `to`
Assign(name, val, to) ==
    /\ g' = [g EXCEPT ![name] = val]
    /\ pc' = to
    /\ UNCHANGED <<argv, stdout, exc, status>>

\* an exception nobody catches ends the run with status 1
Raise(e) ==
    /\ pc' = "raised"
    /\ exc' = e
    /\ status' = "exit1"
    /\ UNCHANGED <<argv, g, stdout>>

\* mutant of ArgCountOk: extra arguments are let through
ArgCountOk_m == Len(argv) >= 7

\* line 49: len(sys.argv) == 7
ArgCountOk == Len(argv) = 7

L49 ==
    /\ pc = "l49"
    /\ pc' = IF ArgCountOk THEN "l50" ELSE "l57"
    /\ UNCHANGED <<argv, g, stdout, exc, status>>

\* lines 50-55: name = float(sys.argv[i])
ParseArg(name, i, to) ==
    /\ IF ParseRaises(argv[i + 1])
       THEN Raise("ValueError")
       ELSE /\ g' = [g EXCEPT ![name] = ParseFloat(argv[i + 1])]
            /\ pc' = to
            /\ UNCHANGED <<argv, stdout, exc, status>>

L50 == pc = "l50" /\ ParseArg("o_x_km", 1, "l51")
L51 == pc = "l51" /\ ParseArg("o_y_km", 2, "l52")
L52 == pc = "l52" /\ ParseArg("o_z_km", 3, "l53")
L53 == pc = "l53" /\ ParseArg("x_km", 4, "l54")
L54 == pc = "l54" /\ ParseArg("y_km", 5, "l55")
\* mutant of L55: the ValueError is swallowed and z_km keeps its NaN
L55_m ==
    /\ pc = "l55"
    /\ g' = [g EXCEPT !.z_km = IF ParseRaises(argv[7]) THEN NaN
                               ELSE ParseFloat(argv[7])]
    /\ pc' = "l63"
    /\ UNCHANGED <<argv, stdout, exc, status>>

L55 == pc = "l55" /\ ParseArg("z_km", 6, "l63")

\* line 57: print the usage
L57 ==
    /\ pc = "l57"
    /\ stdout' = Append(stdout, UsageLine)
    /\ pc' = "l58"
    /\ UNCHANGED <<argv, g, exc, status>>

\* line 58: sys.exit()
L58 ==
    /\ pc = "l58"
    /\ pc' = "exited"
    /\ status' = "exit0"
    /\ UNCHANGED <<argv, g, stdout, exc>>

\* lines 63-65: the difference vector
L63 == pc = "l63" /\ Assign("x_vec_km", FSub(g.x_km, g.o_x_km), "l64")
L64 == pc = "l64" /\ Assign("y_vec_km", FSub(g.y_km, g.o_y_km), "l65")
L65 == pc = "l65" /\ Assign("z_vec_km", FSub(g.z_km, g.o_z_km), "l68")

\* lines 68-69: longitude
L68 == pc = "l68" /\ Assign("lon_rad", Atan2(g.o_y_km, g.o_x_km), "l69")
L69 == pc = "l69" /\ Assign("lon_deg", FMul(g.lon_rad, RAD_TO_DEG), "l72")

\* line 72: sqrt(o_x_km**2 + o_y_km**2 + o_z_km**2)
OriginNorm ==
    Sqrt(FAdd(FAdd(FSquare(g.o_x_km), FSquare(g.o_y_km)), FSquare(g.o_z_km)))

\* line 72: lat_rad = asin(z_vec_km / sqrt(...))
L72 ==
    /\ pc = "l72"
    /\ IF DivRaises(g.z_vec_km, OriginNorm) THEN Raise("ZeroDivisionError")
       ELSE IF AsinRaises(FDiv(g.z_vec_km, OriginNorm)) THEN Raise("ValueError")
       ELSE /\ g' = [g EXCEPT !.lat_rad = Asin(FDiv(g.z_vec_km, OriginNorm))]
            /\ pc' = "l73"
            /\ UNCHANGED <<argv, stdout, exc, status>>

\* lines 73-78
L73 == pc = "l73" /\ Assign("r_lon_km",
              Sqrt(FAdd(FSquare(g.o_x_km), FSquare(g.o_y_km))), "l74")
L74 == pc = "l74" /\ Assign("prev_lat_rad", NaN, "l77")
L77 == pc = "l77" /\ Assign("c_E", NaN, "l78")
L78 == pc = "l78" /\ Assign("count", 0, "l79")

\* mutant of LoopCond: the cap lets a sixth round through
LoopCond_m ==
    /\ \/ isnan(g.prev_lat_rad)
       \/ FGt(FAbs(FSub(g.lat_rad, g.prev_lat_rad)), Tolerance)
    /\ g.count <= 5

\* line 79: the condition of the while loop
LoopCond ==
    /\ \/ isnan(g.prev_lat_rad)
       \/ FGt(FAbs(FSub(g.lat_rad, g.prev_lat_rad)), Tolerance)
    /\ g.count < 5

L79 ==
    /\ pc = "l79"
    /\ pc' = IF LoopCond THEN "l80" ELSE "l87"
    /\ UNCHANGED <<argv, g, stdout, exc, status>>

\* lines 37-38: calc_denom(ecc, lat_rad) raises ValueError
CalcDenomRaises(ecc, lat_rad) ==
    \/ TrigRaises(lat_rad)
    \/ SqrtRaises(FSub(One, FMul(FSquare(ecc), FSquare(Sin(lat_rad)))))

\* lines 37-38: calc_denom(ecc, lat_rad)
calc_denom(ecc, lat_rad) ==
    Sqrt(FSub(One, FMul(FSquare(ecc), FSquare(Sin(lat_rad)))))

\* line 80
L80 ==
    /\ pc = "l80"
    /\ IF CalcDenomRaises(Fin(E_E), g.lat_rad) THEN Raise("ValueError")
       ELSE /\ g' = [g EXCEPT !.denom = calc_denom(Fin(E_E), g.lat_rad)]
            /\ pc' = "l81"
            /\ UNCHANGED <<argv, stdout, exc, status>>

\* line 81
L81 ==
    /\ pc = "l81"
    /\ IF DivRaises(Fin(R_E_KM), g.denom) THEN Raise("ZeroDivisionError")
       ELSE /\ g' = [g EXCEPT !.c_E = FDiv(Fin(R_E_KM), g.denom)]
            /\ pc' = "l82"
            /\ UNCHANGED <<argv, stdout, exc, status>>

\* line 82
L82 == pc = "l82" /\ Assign("prev_lat_rad", g.lat_rad, "l83")

\* line 83: o_z_km + c_E * (E_E**2) * sin(lat_rad)
LatNumerator ==
    FAdd(g.o_z_km, FMul(FMul(g.c_E, FSquare(Fin(E_E))), Sin(g.lat_rad)))

\* mutant of L83: the division by zero yields an infinity or NaN, as IEEE
\* arithmetic does, instead of raising
L83_m ==
    /\ pc = "l83"
    /\ g' = [g EXCEPT !.lat_rad =
                 IF ~DivRaises(LatNumerator, g.r_lon_km)
                 THEN Atan(FDiv(LatNumerator, g.r_lon_km))
                 ELSE IF IsNaN(LatNumerator) \/ IsZero(LatNumerator) THEN NaN
                 ELSE Atan([c |-> "inf", v |-> FSign(LatNumerator)])]
    /\ pc' = "l84"
    /\ UNCHANGED <<argv, stdout, exc, status>>

\* line 83
L83 ==
    /\ pc = "l83"
    /\ IF TrigRaises(g.lat_rad) THEN Raise("ValueError")
       ELSE IF DivRaises(LatNumerator, g.r_lon_km)
            THEN Raise("ZeroDivisionError")
       ELSE /\ g' = [g EXCEPT !.lat_rad = Atan(FDiv(LatNumerator, g.r_lon_km))]
            /\ pc' = "l84"
            /\ UNCHANGED <<argv, stdout, exc, status>>

\* line 84
L84 == pc = "l84" /\ Assign("count", g.count + 1, "l79")

\* line 87: hae_km = r_lon_km / cos(lat_rad) - c_E
L87 ==
    /\ pc = "l87"
    /\ IF TrigRaises(g.lat_rad) THEN Raise("ValueError")
       ELSE IF DivRaises(g.r_lon_km, Cos(g.lat_rad))
            THEN Raise("ZeroDivisionError")
       ELSE /\ g' = [g EXCEPT !.hae_km =
                         FSub(FDiv(g.r_lon_km, Cos(g.lat_rad)), g.c_E)]
            /\ pc' = "l90"
            /\ UNCHANGED <<argv, stdout, exc, status>>

\* mutant of RotS: the last term takes z_km for z_vec_km
RotS_m ==
    FSub(FAdd(FMul(g.x_vec_km, Cos(g.lon_rad)),
              FMul(FMul(g.y_vec_km, Sin(g.lon_rad)), Sin(g.lat_rad))),
         FMul(g.z_km, Cos(g.lat_rad)))

\* lines 90-91: the right-hand side of s_km
RotS ==
    FSub(FAdd(FMul(g.x_vec_km, Cos(g.lon_rad)),
              FMul(FMul(g.y_vec_km, Sin(g.lon_rad)), Sin(g.lat_rad))),
         FMul(g.z_vec_km, Cos(g.lat_rad)))

\* line 93: the right-hand side of e_km
RotE ==
    FAdd(FMul(g.x_vec_km, FNeg(Sin(g.lon_rad))),
         FMul(g.y_vec_km, Cos(g.lon_rad)))

\* lines 95-96: the right-hand side of z_km
RotZ ==
    FAdd(FMul(FAdd(FMul(g.x_vec_km, Cos(g.lon_rad)),
                   FMul(g.y_vec_km, Sin(g.lon_rad))),
              Cos(g.lat_rad)),
         FMul(g.z_vec_km, Sin(g.lat_rad)))

\* sin or cos of the pose raises ValueError
RotRaises == TrigRaises(g.lon_rad) \/ TrigRaises(g.lat_rad)

\* a rotation statement binds `name` to `val`
Rotate(name, val, to) ==
    /\ IF RotRaises THEN Raise("ValueError")
       ELSE /\ g' = [g EXCEPT ![name] = val]
            /\ pc' = to
            /\ UNCHANGED <<argv, stdout, exc, status>>

L90 == pc = "l90" /\ Rotate("s_km", RotS, "l93")
L93 == pc = "l93" /\ Rotate("e_km", RotE, "l95")
L95 == pc = "l95" /\ Rotate("z_km", RotZ, "l99")

\* print(val)
PrintLine(val, to) ==
    /\ stdout' = Append(stdout, FormatFloat(val))
    /\ pc' = to
    /\ UNCHANGED <<argv, g, exc>>

\* mutant of L99: e_km is printed first
L99_m == pc = "l99" /\ PrintLine(g.e_km, "l100") /\ UNCHANGED status

\* lines 99-101; the script ends after the last one
L99 == pc = "l99" /\ PrintLine(g.s_km, "l100") /\ UNCHANGED status
L100 == pc = "l100" /\ PrintLine(g.e_km, "l101") /\ UNCHANGED status
L101 == pc = "l101" /\ PrintLine(g.z_km, "done") /\ status' = "exit0"

Next ==
    \/ L49 \/ L50 \/ L51 \/ L52 \/ L53 \/ L54 \/ L55 \/ L57 \/ L58
    \/ L63 \/ L64 \/ L65 \/ L68 \/ L69 \/ L72 \/ L73 \/ L74 \/ L77 \/ L78
    \/ L79 \/ L80 \/ L81 \/ L82 \/ L83 \/ L84 \/ L87
    \/ L90 \/ L93 \/ L95 \/ L99 \/ L100 \/ L101

Spec == Init /\ [][Next]_vars

(***************************************************************************)
(* Properties                                                              *)
(***************************************************************************)

\* the command-line arguments
NArgs == Len(argv) - 1
Arg(i) == argv[i + 1]
SixArgs == NArgs = 6
AllParse == SixArgs /\ \A i \in 1..6 : ~ParseRaises(Arg(i))
SomeUnparseable == SixArgs /\ \E i \in 1..6 : ParseRaises(Arg(i))

\* the origin and the target named on the command line
ArgOrigin == <<ParseFloat(Arg(1)), ParseFloat(Arg(2)), ParseFloat(Arg(3))>>
ArgTarget == <<ParseFloat(Arg(4)), ParseFloat(Arg(5)), ParseFloat(Arg(6))>>

ParsePcs == {"l50", "l51", "l52", "l53", "l54", "l55"}
LoopBodyPcs == {"l80", "l81", "l82", "l83", "l84"}
PrintPcs == {"l99", "l100", "l101"}
AfterLoopPcs == {"l87", "l90", "l93", "l95"} \cup PrintPcs \cup {"done"}

\* no statement of lines 63-96 has run
NoComputation ==
    /\ \A n \in {"x_vec_km", "y_vec_km", "z_vec_km", "lon_rad", "lon_deg",
                 "lat_rad", "r_lon_km", "prev_lat_rad", "c_E", "count",
                 "denom", "hae_km", "s_km", "e_km"} : g[n] = Unbound
    /\ pc \in {"l49", "l57", "l58", "exited", "raised"} \cup ParsePcs

\* C1: with a number of arguments other than six the script prints the one
\* usage line, exits with status 0, and never runs the computation nor prints
\* a number
C1_UsageOnWrongArgCount ==
    ~SixArgs =>
        /\ pc \in {"l49", "l57", "l58", "exited"}
        /\ NoComputation
        /\ exc = "none"
        /\ stdout = (IF pc \in {"l58", "exited"} THEN <<UsageLine>> ELSE <<>>)
        /\ status = (IF pc = "exited" THEN "exit0" ELSE "running")

C1_Witness == pc = "exited" /\ NArgs = 7 /\ stdout = <<UsageLine>>

\* C2: with six arguments of which one does not parse the run ends in an
\* uncaught ValueError of float() before any computation, with nothing printed
C2_ParseFailureBeforeComputation ==
    SomeUnparseable =>
        /\ pc \in {"l49", "raised"} \cup ParsePcs
        /\ NoComputation
        /\ stdout = <<>>
        /\ pc = "raised" => exc = "ValueError" /\ status = "exit1"
        /\ pc # "raised" => exc = "none" /\ status = "running"

C2_Witness ==
    /\ pc = "raised"
    /\ SixArgs
    /\ \A i \in 1..5 : ~ParseRaises(Arg(i))
    /\ ParseRaises(Arg(6))
    /\ g.y_km = ParseFloat(Arg(5))

\* C3: a run with six parseable arguments that completes has printed exactly
\* three lines, s_km then e_km then z_km, and nothing is printed before the
\* computation is over
C3_ThreeLinesInOrder ==
    AllParse =>
        /\ pc = "done" =>
              /\ stdout = <<FormatFloat(g.s_km), FormatFloat(g.e_km),
                            FormatFloat(g.z_km)>>
              /\ status = "exit0"
              /\ exc = "none"
        /\ pc \notin PrintPcs \cup {"done"} => stdout = <<>>
        /\ pc = "l100" => stdout = <<FormatFloat(g.s_km)>>
        /\ pc = "l101" => stdout = <<FormatFloat(g.s_km), FormatFloat(g.e_km)>>

C3_Witness ==
    /\ pc = "done"
    /\ Len(stdout) = 3
    /\ stdout[1] # stdout[2] /\ stdout[2] # stdout[3] /\ stdout[1] # stdout[3]

\* the origin is the geocentre or lies on the polar axis
DegenerateOrigin ==
    AllParse /\ IsZero(ArgOrigin[1]) /\ IsZero(ArgOrigin[2])

FinitePoseAndDiff ==
    /\ IsFin(g.x_vec_km) /\ IsFin(g.y_vec_km) /\ IsFin(g.z_vec_km)
    /\ IsFin(g.lon_rad) /\ IsFin(g.lat_rad)

\* R_y(90 deg - lat) * R_z(lon) applied to the difference vector
RefS ==
    FSub(FMul(Sin(g.lat_rad),
              FAdd(FMul(g.x_vec_km, Cos(g.lon_rad)),
                   FMul(g.y_vec_km, Sin(g.lon_rad)))),
         FMul(g.z_vec_km, Cos(g.lat_rad)))
RefE ==
    FAdd(FNeg(FMul(g.x_vec_km, Sin(g.lon_rad))),
         FMul(g.y_vec_km, Cos(g.lon_rad)))
RefZ ==
    FAdd(FMul(Cos(g.lat_rad),
              FAdd(FMul(g.x_vec_km, Cos(g.lon_rad)),
                   FMul(g.y_vec_km, Sin(g.lon_rad)))),
         FMul(g.z_vec_km, Sin(g.lat_rad)))

\* what the rounding of the sines, cosines and products may move a
\* component: three thousandths and a hundredth of the difference vector
RoundingSlack ==
    3 + (IAbs(g.x_vec_km.v) + IAbs(g.y_vec_km.v) + IAbs(g.z_vec_km.v)) \div 100

\* C5: the printed SEZ vector is R_y(90 deg - lat) * R_z(lon) applied to the
\* difference vector (up to the rounding of the products)
C5_RotationIsMatrixProduct ==
    pc \in PrintPcs \cup {"done"} /\ FinitePoseAndDiff =>
        /\ IAbs(g.s_km.v - RefS.v) <= RoundingSlack
        /\ IAbs(g.e_km.v - RefE.v) <= RoundingSlack
        /\ IAbs(g.z_km.v - RefZ.v) <= RoundingSlack

ZeroDiff == IsZero(g.x_vec_km) /\ IsZero(g.y_vec_km) /\ IsZero(g.z_vec_km)

\* C6: the rotation of the zero difference vector is the zero SEZ vector,
\* whatever pose the origin has
C6_ZeroDiffZeroSez ==
    pc \in PrintPcs \cup {"done"} /\ ZeroDiff =>
        g.s_km = Fin(0) /\ g.e_km = Fin(0) /\ g.z_km = Fin(0)

C6_Witness ==
    /\ pc = "done"
    /\ ZeroDiff
    /\ IsFin(g.lat_rad) /\ g.lat_rad.v # 0
    /\ IsFin(g.lon_rad) /\ g.lon_rad.v # 0

\* the difference vector is bound and z_km still holds the target
DiffComputed == g.z_vec_km # Unbound /\ pc \notin PrintPcs \cup {"done"}

\* a == b on floats
FEq(a, b) == ~IsNaN(a) /\ a = b

TargetEqualsOrigin ==
    FEq(g.x_km, g.o_x_km) /\ FEq(g.y_km, g.o_y_km) /\ FEq(g.z_km, g.o_z_km)

\* t - o, stated on the numbers
IsDifference(d, t, o) ==
    /\ IsFin(t) /\ IsFin(o) => d = Fin(t.v - o.v)
    /\ IsNaN(t) \/ IsNaN(o) => d = NaN
    /\ IsInf(t) /\ IsFin(o) => d = t
    /\ IsFin(t) /\ IsInf(o) => d = [c |-> "inf", v |-> -o.v]
    /\ IsInf(t) /\ IsInf(o) => d = (IF t.v = o.v THEN NaN ELSE t)

DiffIsTargetMinusOrigin ==
    /\ IsDifference(g.x_vec_km, g.x_km, g.o_x_km)
    /\ IsDifference(g.y_vec_km, g.y_km, g.o_y_km)
    /\ IsDifference(g.z_vec_km, g.z_km, g.o_z_km)

\* C7 (as claimed): the difference vector is target minus origin, and it is
\* the zero vector when the target equals the origin, for any origin
C7_DiffZeroForAnyOrigin ==
    DiffComputed =>
        /\ DiffIsTargetMinusOrigin
        /\ TargetEqualsOrigin => ZeroDiff

FiniteOrigin == IsFin(g.o_x_km) /\ IsFin(g.o_y_km) /\ IsFin(g.o_z_km)

\* C7 (amended): the difference vector is target minus origin, and it is the
\* zero vector when the target equals an origin whose components are finite
C7_DiffZeroForFiniteOrigin ==
    DiffComputed =>
        /\ DiffIsTargetMinusOrigin
        /\ TargetEqualsOrigin /\ FiniteOrigin => ZeroDiff

C7_Witness ==
    /\ DiffComputed
    /\ TargetEqualsOrigin /\ FiniteOrigin
    /\ ~IsZero(g.o_x_km) /\ ~IsZero(g.o_z_km)

\* C8: the initial latitude guess is asin(o_z_km / |origin|), a function of
\* the origin alone
C8_InitialGuessFromOrigin ==
    pc = "l73" /\ ~AsinRaises(FDiv(g.o_z_km, OriginNorm)) =>
        g.lat_rad = Asin(FDiv(g.o_z_km, OriginNorm))

\* C9: the loop body runs at least once and at most five times, and the loop
\* is left after fewer than five rounds only when the last two iterates are
\* within the tolerance of each other
C9_LoopOneToFiveRounds ==
    /\ pc \in LoopBodyPcs => g.count \in 0..4
    /\ pc = "l79" => g.count \in 0..5
    /\ pc \in AfterLoopPcs =>
          /\ g.count \in 1..5
          /\ g.count < 5 =>
                /\ IsFin(g.lat_rad) /\ IsFin(g.prev_lat_rad)
                /\ IAbs(g.lat_rad.v - g.prev_lat_rad.v) <= Tolerance.v

C9_Witness ==
    /\ pc = "l87"
    /\ g.count \in 2..4
    /\ g.lat_rad = g.prev_lat_rad

\* the arguments are finite and the origin is off the polar axis
NonDegenerateFinite ==
    /\ AllParse
    /\ \A i \in 1..3 : IsFin(ArgOrigin[i]) /\ IsFin(ArgTarget[i])
    /\ ~IsZero(ArgOrigin[1]) \/ ~IsZero(ArgOrigin[2])

\* C10: with finite arguments and a non-degenerate origin no statement raises
\* a domain or division error, whatever the target is
C10_NonDegenerateNeverRaises == NonDegenerateFinite => pc # "raised"

====
